---- MODULE Spec2Model ----
(***************************************************************************)
(* A model of pop_film_scraper.py: the page-by-page collection of one      *)
(* pass (scrape_ajax_pages_single_pass), the reconciliation of the passes  *)
(* into a ranked list (scrape_top_films), the concurrent detail fetch and  *)
(* its interrupt handling (main), and the de-duplicating append to the     *)
(* history file (save_to_csv).                                             *)
(*                                                                         *)
(* Python dicts keep insertion order and sorted() is stable, so every dict *)
(* of the program is a sequence of entries here, in insertion order.       *)
(***************************************************************************)
EXTENDS Integers, Sequences, FiniteSets, TLC

\* ---- bounds of the model ----
NumIds == 4        \* most film ids the listing source shows (ids 1..NumIds)
NumUrls == 2       \* most urls under which the source lists one film
PageLen == 2       \* most films on one listing page
MaxPages == 3      \* largest `pages` argument
MaxPasses == 3     \* largest `num_passes` argument
NumDates == 2      \* snapshot dates 1..NumDates
MaxStoreRows == 2  \* most rows of a file, and of a record set, in the store runs
MaxAppends == 2    \* appends of one record set in the store runs

\* ---- program constants, scaled down so that the cap and the pool bind ----
MAX_FILMS == 3     \* MAX_FILMS = 1000 in the source
MAX_WORKERS == 2   \* max_workers=10 in the source

Dates == 1..NumDates

Min(a, b) == IF a < b THEN a ELSE b
Max(a, b) == IF a > b THEN a ELSE b

\* films_on_page: what get_film_links_from_html returns for one page, a list
\* of (film_id, full_url) in page order; the same id may be listed twice.
PageContents(ids, urls, len) == UNION {[1..n -> [id : 1..ids, url : 1..urls]] : n \in 1..len}

\* The pages a listing source may answer with. A source of kind "any" lists any
\* films on any page; a source of kind "paged" has its films in fixed pages of
\* len films (page p holds the films (p-1)*len+1 .. p*len, under one url) and
\* only their order within the page varies from request to request.
Listing(src, pg) ==
  IF src.kind = "paged"
    THEN {fs \in [1..src.len -> [id : ((pg - 1) * src.len + 1)..(pg * src.len), url : {1}]] :
            \A i, j \in 1..src.len : fs[i].id = fs[j].id => i = j}
    ELSE PageContents(src.ids, src.urls, src.len)

VARIABLES
  pc,               \* position of the main thread
  num_passes,       \* argument of main / scrape_top_films
  pages,            \* argument of main / scrape_top_films
  source,           \* the listing source: its kind, how many ids and urls it shows, its page length
  snapshot_date,    \* main: snapshot_date
  pass_num,         \* scrape_top_films: loop variable
  page,             \* scrape_ajax_pages_single_pass: loop variable
  film_data,        \* scrape_ajax_pages_single_pass: dict film_id -> (url, page, position)
  last_response,    \* outcome of the latest page fetch of the pass
  fetch_log,        \* pages requested (requests.get) in the current pass, in order
  all_passes_data,  \* scrape_top_films: list of the passes' film_data
  film_scores,      \* scrape_top_films: dict film_id -> score
  sorted_films,     \* scrape_top_films: sorted_films
  films,            \* the RankedList returned by scrape_top_films
  futures,          \* main: state of the future of each film of films
  cur,              \* main: index of the future the collecting loop is at
  scraped_data,     \* main: scraped_data
  interrupted,      \* a KeyboardInterrupt was raised in the main thread
  ok_at_interrupt,  \* futures that had completed with details when it was raised
  started_at_interrupt, \* futures whose fetch had started when it was raised
  out_of_order,     \* a fetch has completed before the fetch of an earlier film
  file,             \* the history file
  store_data,       \* store runs: the record set appended
  store_count,      \* store runs: number of appends done
  file_once         \* store runs: the file after the first append

vars == <<pc, num_passes, pages, source, snapshot_date, pass_num, page, film_data, last_response,
          fetch_log, all_passes_data, film_scores, sorted_films, films, futures, cur,
          scraped_data, interrupted, ok_at_interrupt, started_at_interrupt,
          out_of_order, file, store_data, store_count, file_once>>

rankVars == <<pass_num, page, film_data, last_response, fetch_log, all_passes_data,
              film_scores, sorted_films, films>>
enrichVars == <<futures, cur, scraped_data, interrupted, ok_at_interrupt,
                started_at_interrupt, out_of_order>>
storeVars == <<store_data, store_count, file_once>>

\* the history file: whether it exists (os.path.exists) and its rows
NoFile == [exists |-> FALSE, rows |-> <<>>]
FileOf(rows) == [exists |-> TRUE, rows |-> rows]

\* ======================= scrape_ajax_pages_single_pass =======================

\* index of film_id in a dict, 0 when it is not a key
IndexOf(d, film_id) ==
  IF \E k \in 1..Len(d) : d[k].id = film_id
    THEN CHOOSE k \in 1..Len(d) : d[k].id = film_id
    ELSE 0

\* a variant that records the latest sighting of a film in place of the earliest
TrackFilmLatest(fd, f, pg, position) ==
  LET k == IndexOf(fd, f.id) IN
    IF k = 0
      THEN Append(fd, [id |-> f.id, url |-> f.url, page |-> pg, pos |-> position])
      ELSE [fd EXCEPT ![k] = [id |-> f.id, url |-> f.url, page |-> pg, pos |-> position]]

\* one iteration of the loop over enumerate(films_on_page, start=1)
TrackFilm(fd, f, pg, position) ==
  LET k == IndexOf(fd, f.id) IN
    IF k = 0
      THEN Append(fd, [id |-> f.id, url |-> f.url, page |-> pg, pos |-> position])
      ELSE IF pg < fd[k].page
             THEN [fd EXCEPT ![k] = [id |-> f.id, url |-> f.url, page |-> pg, pos |-> position]]
             ELSE fd

RECURSIVE TrackFrom(_, _, _, _)
TrackFrom(fd, films_on_page, pg, position) ==
  IF position > Len(films_on_page)
    THEN fd
    ELSE TrackFrom(TrackFilm(fd, films_on_page[position], pg, position),
                   films_on_page, pg, position + 1)

TrackPage(fd, films_on_page, pg) == TrackFrom(fd, films_on_page, pg, 1)

\* a variant of the loop condition that also stops at the item cap
ContinueLoopCapped(fd, pg) == pg <= pages /\ Len(fd) < MAX_FILMS

\* for page in range(1, pages + 1): the loop goes on while pages remain
ContinueLoop(fd, pg) == pg <= pages

\* response.status_code != 200: break
FetchFailed ==
  /\ pc = "scrape"
  /\ ContinueLoop(film_data, page)
  /\ fetch_log' = Append(fetch_log, page)
  /\ last_response' = "failed"
  /\ pc' = "pass_done"
  /\ UNCHANGED <<num_passes, pages, source, snapshot_date, pass_num, page, film_data, all_passes_data,
                 film_scores, sorted_films, films, file>>
  /\ UNCHANGED enrichVars /\ UNCHANGED storeVars

\* not films_on_page: break
PageEmpty ==
  /\ pc = "scrape"
  /\ ContinueLoop(film_data, page)
  /\ fetch_log' = Append(fetch_log, page)
  /\ last_response' = "empty"
  /\ pc' = "pass_done"
  /\ UNCHANGED <<num_passes, pages, source, snapshot_date, pass_num, page, film_data, all_passes_data,
                 film_scores, sorted_films, films, file>>
  /\ UNCHANGED enrichVars /\ UNCHANGED storeVars

\* a page with films: track each of them, go to the next page
PageScraped ==
  /\ pc = "scrape"
  /\ ContinueLoop(film_data, page)
  /\ \E films_on_page \in Listing(source, page) :
       film_data' = TrackPage(film_data, films_on_page, page)
  /\ fetch_log' = Append(fetch_log, page)
  /\ last_response' = "films"
  /\ page' = page + 1
  /\ UNCHANGED <<pc, num_passes, pages, source, snapshot_date, pass_num, all_passes_data,
                 film_scores, sorted_films, films, file>>
  /\ UNCHANGED enrichVars /\ UNCHANGED storeVars

\* the for loop ends without a break
PagesExhausted ==
  /\ pc = "scrape"
  /\ ~ContinueLoop(film_data, page)
  /\ pc' = "pass_done"
  /\ UNCHANGED <<num_passes, pages, source, snapshot_date, file>>
  /\ UNCHANGED rankVars /\ UNCHANGED enrichVars /\ UNCHANGED storeVars

\* ============================ scrape_top_films ==============================

\* return film_data; all_passes_data.append(pass_data); the next pass, if any
PassComplete ==
  /\ pc = "pass_done"
  /\ all_passes_data' = Append(all_passes_data, film_data)
  /\ IF pass_num < num_passes
       THEN /\ pass_num' = pass_num + 1
            /\ page' = 1
            /\ film_data' = <<>>
            /\ last_response' = "none"
            /\ fetch_log' = <<>>
            /\ pc' = "scrape"
       ELSE /\ pc' = "reconcile"
            /\ UNCHANGED <<pass_num, page, film_data, last_response, fetch_log>>
  /\ UNCHANGED <<num_passes, pages, source, snapshot_date, film_scores, sorted_films, films, file>>
  /\ UNCHANGED enrichVars /\ UNCHANGED storeVars

\* one iteration of the loop over pass_data.items()
ScoreFilm(scores, e) ==
  LET k == IndexOf(scores, e.id) IN
    IF k = 0
      THEN Append(scores, [id |-> e.id, earliest_page |-> e.page, latest_page |-> e.page,
                           num_passes |-> 1, film_url |-> e.url,
                           total_positions |-> <<e.page>>])
      ELSE [scores EXCEPT ![k] =
              [id |-> e.id,
               earliest_page |-> Min(scores[k].earliest_page, e.page),
               latest_page |-> Max(scores[k].latest_page, e.page),
               num_passes |-> scores[k].num_passes + 1,
               film_url |-> scores[k].film_url,
               total_positions |-> Append(scores[k].total_positions, e.page)]]

\* a variant of the fold over one pass that takes its films from the last to the first
RECURSIVE ScorePassBackwards(_, _, _)
ScorePassBackwards(scores, pass_data, k) ==
  IF k > Len(pass_data)
    THEN scores
    ELSE ScorePassBackwards(ScoreFilm(scores, pass_data[Len(pass_data) - k + 1]), pass_data, k + 1)

RECURSIVE ScorePass(_, _, _)
ScorePass(scores, pass_data, k) ==
  IF k > Len(pass_data)
    THEN scores
    ELSE ScorePass(ScoreFilm(scores, pass_data[k]), pass_data, k + 1)

RECURSIVE ScorePasses(_, _, _)
ScorePasses(scores, passes, p) ==
  IF p > Len(passes)
    THEN scores
    ELSE ScorePasses(ScorePass(scores, passes[p], 1), passes, p + 1)

RECURSIVE SumSeq(_)
SumSeq(s) == IF s = <<>> THEN 0 ELSE s[1] + SumSeq(Tail(s))

\* avg_page = sum(total_positions) / len(total_positions), kept as a fraction:
\* the quotients of two such small integers compare as the fractions do
AvgPage(score) == [num |-> SumSeq(score.total_positions), den |-> Len(score.total_positions)]
AvgLess(a, b) == a.num * b.den < b.num * a.den
AvgEq(a, b) == a.num * b.den = b.num * a.den

\* a sort key that ranks by the average page before the earliest page
KeyLessAvgFirst(a, b) ==
  \/ AvgLess(AvgPage(a), AvgPage(b))
  \/ /\ AvgEq(AvgPage(a), AvgPage(b))
     /\ \/ a.earliest_page < b.earliest_page
        \/ a.earliest_page = b.earliest_page /\ -a.num_passes < -b.num_passes

\* the tuple order of the key (earliest_page, avg_page, -num_passes)
KeyLess(a, b) ==
  \/ a.earliest_page < b.earliest_page
  \/ /\ a.earliest_page = b.earliest_page
     /\ \/ AvgLess(AvgPage(a), AvgPage(b))
        \/ AvgEq(AvgPage(a), AvgPage(b)) /\ -a.num_passes < -b.num_passes

\* a variant that is not stable: x goes before the elements that compare equal
InsertSortedUnstable(s, x) ==
  LET later == {k \in 1..Len(s) : ~KeyLess(s[k], x)}
      at == IF later = {} THEN Len(s) + 1
            ELSE CHOOSE k \in later : \A j \in later : k <= j
  IN SubSeq(s, 1, at - 1) \o <<x>> \o SubSeq(s, at, Len(s))

\* sorted() is stable: x goes before the first element that is greater than it
InsertSorted(s, x) ==
  LET later == {k \in 1..Len(s) : KeyLess(x, s[k])}
      at == IF later = {} THEN Len(s) + 1
            ELSE CHOOSE k \in later : \A j \in later : k <= j
  IN SubSeq(s, 1, at - 1) \o <<x>> \o SubSeq(s, at, Len(s))

RECURSIVE SortedFrom(_, _, _)
SortedFrom(acc, items, k) ==
  IF k > Len(items) THEN acc ELSE SortedFrom(InsertSorted(acc, items[k]), items, k + 1)

Sorted(items) == SortedFrom(<<>>, items, 1)

\* a slice that takes everything
TopFilmsAll(s) == s

\* sorted_films[:MAX_FILMS]
TopFilms(s) == SubSeq(s, 1, Min(Len(s), MAX_FILMS))

\* [(film_id, score['film_url']) for film_id, score in top_films]
AsRankedList(top) == [k \in 1..Len(top) |-> [id |-> top[k].id, url |-> top[k].film_url]]

\* the fold over all_passes_data, the sort, the slice and the return value
Reconcile ==
  /\ pc = "reconcile"
  /\ film_scores' = ScorePasses(<<>>, all_passes_data, 1)
  /\ sorted_films' = Sorted(film_scores')
  /\ films' = AsRankedList(TopFilms(sorted_films'))
  /\ pc' = "ranked"
  /\ UNCHANGED <<num_passes, pages, source, snapshot_date, pass_num, page, film_data, last_response,
                 fetch_log, all_passes_data, file>>
  /\ UNCHANGED enrichVars /\ UNCHANGED storeVars

\* ================================ save_to_csv ================================

\* the columns of the table that the model keeps; a DataFrame row also has the
\* dtype of its Film ID: a str as scraped, an int64 once read back from the file
FileRow(r) == [order |-> r.order, id |-> r.id, url |-> r.url, date |-> r.date]

\* pd.DataFrame(data, columns=[...])
DataFrame(data) ==
  [k \in 1..Len(data) |-> [order |-> data[k].order, id |-> data[k].id, idtype |-> "str",
                           url |-> data[k].url, date |-> data[k].date]]

\* pd.read_csv(filename)
ReadCsv(f) ==
  [k \in 1..Len(f) |-> [order |-> f[k].order, id |-> f[k].id, idtype |-> "int64",
                        url |-> f[k].url, date |-> f[k].date]]

\* combined_df.to_csv(filename, index=False)
ToCsv(df) == [k \in 1..Len(df) |-> FileRow(df[k])]

\* subset=['Film ID', 'Snapshot Date']
DedupKey(r) == <<r.id, r.idtype, r.date>>

\* drop_duplicates(subset=..., keep='first')
RECURSIVE DropDuplicates(_)
DropDuplicates(df) ==
  IF df = <<>>
    THEN <<>>
    ELSE LET front == DropDuplicates(SubSeq(df, 1, Len(df) - 1))
             last == df[Len(df)]
         IN IF \E k \in 1..Len(front) : DedupKey(front[k]) = DedupKey(last)
              THEN front
              ELSE Append(front, last)

\* the file that save_to_csv(data, filename) leaves, f being the file before
SaveToCsv(data, f) ==
  LET new_df == DropDuplicates(DataFrame(data))
      combined_df == IF f.exists
                       THEN DropDuplicates(ReadCsv(f.rows)) \o new_df
                       ELSE new_df
  IN FileOf(ToCsv(combined_df))

\* =================================== main ===================================

Done(state) == state \in {"details", "none", "raised"}
Started(state) == state \in {"running", "details", "none", "raised"}
Running == {i \in 1..Len(futures) : futures[i] = "running"}

\* a variant that never takes the early return
NoFilmsIgnored(fs) == FALSE

\* if not films
NoFilms(fs) == fs = <<>>

\* if not films: print, return
MainNoFilms ==
  /\ pc = "ranked"
  /\ NoFilms(films)
  /\ pc' = "done"
  /\ all_passes_data' = <<>> /\ film_scores' = <<>> /\ sorted_films' = <<>>
  /\ film_data' = <<>> /\ fetch_log' = <<>> /\ last_response' = "none"
  /\ pass_num' = 0 /\ page' = 0
  /\ UNCHANGED <<num_passes, pages, source, snapshot_date, films, file>>
  /\ UNCHANGED enrichVars /\ UNCHANGED storeVars

\* scraped_data = []; the with statement creates the executor (the dict
\* comprehension over an empty list submits nothing). The locals of
\* scrape_top_films are gone once it has returned.
MainEnrich ==
  /\ pc = "ranked"
  /\ ~NoFilms(films)
  /\ pc' = IF films = <<>> THEN "collect" ELSE "submit"
  /\ scraped_data' = <<>>
  /\ futures' = [k \in 1..Len(films) |-> "unsubmitted"]
  /\ cur' = 1
  /\ all_passes_data' = <<>> /\ film_scores' = <<>> /\ sorted_films' = <<>>
  /\ film_data' = <<>> /\ fetch_log' = <<>> /\ last_response' = "none"
  /\ pass_num' = 0 /\ page' = 0
  /\ UNCHANGED <<num_passes, pages, source, snapshot_date, films, file, interrupted, ok_at_interrupt,
                 started_at_interrupt, out_of_order>>
  /\ UNCHANGED storeVars

\* executor.submit(get_film_details, film_url), in the order of enumerate(films)
MainSubmit ==
  /\ pc = "submit"
  /\ \E i \in 1..Len(films) :
       /\ futures[i] = "unsubmitted"
       /\ \A j \in 1..(i - 1) : futures[j] # "unsubmitted"
       /\ futures' = [futures EXCEPT ![i] = "queued"]
       /\ pc' = IF i = Len(films) THEN "collect" ELSE "submit"
  /\ UNCHANGED <<num_passes, pages, source, snapshot_date, cur, scraped_data, interrupted,
                 ok_at_interrupt, started_at_interrupt, out_of_order, file>>
  /\ UNCHANGED rankVars /\ UNCHANGED storeVars

\* a worker thread of the pool takes the oldest queued work item, whatever the
\* main thread is doing meanwhile (submitting, collecting or in shutdown(wait=True))
WorkerStart ==
  /\ pc \in {"submit", "collect", "shutdown"}
  /\ Cardinality(Running) < MAX_WORKERS
  /\ \E i \in 1..Len(futures) :
       /\ futures[i] = "queued"
       /\ \A j \in 1..(i - 1) : futures[j] # "queued"
       /\ futures' = [futures EXCEPT ![i] = "running"]
  /\ UNCHANGED <<pc, num_passes, pages, source, snapshot_date, cur, scraped_data, interrupted,
                 ok_at_interrupt, started_at_interrupt, out_of_order, file>>
  /\ UNCHANGED rankVars /\ UNCHANGED storeVars

\* get_film_details returns the tuple of details
FetchDetails ==
  /\ pc \in {"submit", "collect", "shutdown"}
  /\ \E i \in Running :
       /\ futures' = [futures EXCEPT ![i] = "details"]
       /\ out_of_order' = (out_of_order \/ \E j \in 1..(i - 1) : ~Done(futures[j]))
  /\ UNCHANGED <<pc, num_passes, pages, source, snapshot_date, cur, scraped_data,
                 interrupted, ok_at_interrupt, started_at_interrupt, file>>
  /\ UNCHANGED rankVars /\ UNCHANGED storeVars

\* get_film_details: response.status_code != 200, return None
FetchNon200 ==
  /\ pc \in {"submit", "collect", "shutdown"}
  /\ \E i \in Running :
       /\ futures' = [futures EXCEPT ![i] = "none"]
       /\ out_of_order' = (out_of_order \/ \E j \in 1..(i - 1) : ~Done(futures[j]))
  /\ UNCHANGED <<pc, num_passes, pages, source, snapshot_date, cur, scraped_data,
                 interrupted, ok_at_interrupt, started_at_interrupt, file>>
  /\ UNCHANGED rankVars /\ UNCHANGED storeVars

\* get_film_details raises (requests.get, the parsing)
FetchRaises ==
  /\ pc \in {"submit", "collect", "shutdown"}
  /\ \E i \in Running :
       /\ futures' = [futures EXCEPT ![i] = "raised"]
       /\ out_of_order' = (out_of_order \/ \E j \in 1..(i - 1) : ~Done(futures[j]))
  /\ UNCHANGED <<pc, num_passes, pages, source, snapshot_date, cur, scraped_data,
                 interrupted, ok_at_interrupt, started_at_interrupt, file>>
  /\ UNCHANGED rankVars /\ UNCHANGED storeVars

\* a variant that numbers the records as they are appended
RecordByArrival(i) ==
  [order |-> Len(scraped_data) + 1, id |-> films[i].id, url |-> films[i].url,
   date |-> snapshot_date]

\* futures[future] = (i + 1, film_id, film_url) and the tuple appended for it
Record(i) ==
  [order |-> i, id |-> films[i].id, url |-> films[i].url, date |-> snapshot_date]

\* a variant in which a failed item ends the loop
AfterFailureAbort(i) == Len(films) + 1

\* continue: the loop goes to the next future
AfterFailure(i) == i + 1

\* future.result() returns the details: scraped_data.append(...)
CollectDetails ==
  /\ pc = "collect"
  /\ cur <= Len(films)
  /\ futures[cur] = "details"
  /\ scraped_data' = Append(scraped_data, Record(cur))
  /\ cur' = cur + 1
  /\ UNCHANGED <<pc, num_passes, pages, source, snapshot_date, futures, interrupted, ok_at_interrupt,
                 started_at_interrupt, out_of_order, file>>
  /\ UNCHANGED rankVars /\ UNCHANGED storeVars

\* details is None: continue
CollectNone ==
  /\ pc = "collect"
  /\ cur <= Len(films)
  /\ futures[cur] = "none"
  /\ cur' = AfterFailure(cur)
  /\ UNCHANGED <<pc, num_passes, pages, source, snapshot_date, futures, scraped_data, interrupted,
                 ok_at_interrupt, started_at_interrupt, out_of_order, file>>
  /\ UNCHANGED rankVars /\ UNCHANGED storeVars

\* except Exception: continue
CollectException ==
  /\ pc = "collect"
  /\ cur <= Len(films)
  /\ futures[cur] = "raised"
  /\ cur' = AfterFailure(cur)
  /\ UNCHANGED <<pc, num_passes, pages, source, snapshot_date, futures, scraped_data, interrupted,
                 ok_at_interrupt, started_at_interrupt, out_of_order, file>>
  /\ UNCHANGED rankVars /\ UNCHANGED storeVars

\* the loop over futures is over: the with statement exits, every future is done
ExecutorExit ==
  /\ pc = "collect"
  /\ cur > Len(films)
  /\ pc' = "save"
  /\ UNCHANGED <<num_passes, pages, source, snapshot_date, file>>
  /\ UNCHANGED rankVars /\ UNCHANGED enrichVars /\ UNCHANGED storeVars

\* KeyboardInterrupt in the main thread inside the try block. It is no
\* Exception, so the inner except lets it through; it leaves the with statement,
\* whose __exit__ is executor.shutdown(wait=True).
Interrupt ==
  /\ pc \in {"submit", "collect"}
  /\ ~interrupted
  /\ interrupted' = TRUE
  /\ ok_at_interrupt' = {i \in 1..Len(futures) : futures[i] = "details"}
  /\ started_at_interrupt' = {i \in 1..Len(futures) : Started(futures[i])}
  /\ pc' = "shutdown"
  /\ UNCHANGED <<num_passes, pages, source, snapshot_date, futures, cur, scraped_data,
                 out_of_order, file>>
  /\ UNCHANGED rankVars /\ UNCHANGED storeVars

\* shutdown(wait=True) returns when the workers have run every submitted work
\* item; then except KeyboardInterrupt: print
ShutdownReturns ==
  /\ pc = "shutdown"
  /\ \A i \in 1..Len(futures) : futures[i] = "unsubmitted" \/ Done(futures[i])
  /\ pc' = "save"
  /\ UNCHANGED <<num_passes, pages, source, snapshot_date, file>>
  /\ UNCHANGED rankVars /\ UNCHANGED enrichVars /\ UNCHANGED storeVars

\* save_to_csv(scraped_data, "letterboxd_popular_history.csv")
MainSave ==
  /\ pc = "save"
  /\ file' = SaveToCsv(scraped_data, file)
  /\ pc' = "done"
  /\ UNCHANGED <<num_passes, pages, source, snapshot_date>>
  /\ UNCHANGED rankVars /\ UNCHANGED enrichVars /\ UNCHANGED storeVars

\* the state before main is called, but for its arguments, the listing source
\* and the history file
Fresh ==
  /\ pass_num = 1
  /\ page = 1
  /\ film_data = <<>>
  /\ last_response = "none"
  /\ fetch_log = <<>>
  /\ all_passes_data = <<>>
  /\ film_scores = <<>>
  /\ sorted_films = <<>>
  /\ films = <<>>
  /\ futures = <<>>
  /\ cur = 0
  /\ scraped_data = <<>>
  /\ interrupted = FALSE
  /\ ok_at_interrupt = {}
  /\ started_at_interrupt = {}
  /\ out_of_order = FALSE
  /\ store_data = <<>>
  /\ store_count = 0
  /\ file_once = NoFile

\* the history file before the run: none, or a row of an earlier run
InitFiles == {NoFile, FileOf(<<[order |-> 1, id |-> 1, url |-> 1, date |-> 1]>>)}

\* a run of main: up to MaxPasses - 1 passes over MaxPages - 1 pages of a source
\* that lists NumIds - 1 films, each under one url
Init ==
  /\ pc = "scrape"
  /\ num_passes \in 1..(MaxPasses - 1)
  /\ pages = MaxPages - 1
  /\ source = [kind |-> "any", ids |-> NumIds - 1, urls |-> NumUrls - 1, len |-> PageLen]
  /\ snapshot_date \in Dates
  /\ file \in InitFiles
  /\ Fresh

Next ==
  \/ FetchFailed
  \/ PageEmpty
  \/ PageScraped
  \/ PagesExhausted
  \/ PassComplete
  \/ Reconcile
  \/ MainNoFilms
  \/ MainEnrich
  \/ MainSubmit
  \/ WorkerStart
  \/ FetchDetails
  \/ FetchNon200
  \/ FetchRaises
  \/ CollectDetails
  \/ CollectNone
  \/ CollectException
  \/ ExecutorExit
  \/ Interrupt
  \/ ShutdownReturns
  \/ MainSave

Spec == Init /\ [][Next]_vars

\* ---- scrape_top_films alone, over larger inputs ----

\* The arguments and listing sources of the ranking runs. Each family holds some
\* dimensions below their bounds so that the others can reach them:
\*   two urls per film;  all the pages;  all the passes;  all the ids;
\*   one pass over all the pages and ids;
\*   a source with fixed pages, whose films only change places within a page.
RankInputs ==
  { [passes |-> MaxPasses - 1, pages |-> MaxPages - 1,
     source |-> [kind |-> "any", ids |-> NumIds - 2, urls |-> NumUrls, len |-> PageLen]],
    [passes |-> MaxPasses - 1, pages |-> MaxPages,
     source |-> [kind |-> "any", ids |-> NumIds - 1, urls |-> NumUrls - 1, len |-> PageLen]],
    [passes |-> MaxPasses, pages |-> MaxPages,
     source |-> [kind |-> "any", ids |-> NumIds - 1, urls |-> NumUrls - 1, len |-> PageLen - 1]],
    [passes |-> MaxPasses - 1, pages |-> MaxPages - 1,
     source |-> [kind |-> "any", ids |-> NumIds, urls |-> NumUrls - 1, len |-> PageLen]],
    [passes |-> MaxPasses - 2, pages |-> MaxPages,
     source |-> [kind |-> "any", ids |-> NumIds, urls |-> NumUrls - 1, len |-> PageLen]],
    [passes |-> MaxPasses - 1, pages |-> MaxPages,
     source |-> [kind |-> "paged", ids |-> MaxPages * PageLen, urls |-> NumUrls - 1,
                 len |-> PageLen]] }

InitRank ==
  /\ pc = "scrape"
  /\ \E input \in RankInputs :
       /\ num_passes \in 1..input.passes
       /\ pages = input.pages
       /\ source = input.source
  /\ snapshot_date = 1
  /\ file = NoFile
  /\ Fresh

NextRank ==
  \/ FetchFailed
  \/ PageEmpty
  \/ PageScraped
  \/ PagesExhausted
  \/ PassComplete
  \/ Reconcile

SpecRank == InitRank /\ [][NextRank]_vars

\* ---- save_to_csv alone: one record set appended to a history file repeatedly ----

StoreRows(d) == [order : {1}, id : {1, 2}, url : {1}, date : {d}]
StoreSeqs(rows) == UNION {[1..n -> rows] : n \in 0..MaxStoreRows}

InitStore ==
  /\ pc = "store"
  /\ num_passes = 1
  /\ pages = 1
  /\ source = [kind |-> "any", ids |-> 2, urls |-> 1, len |-> 1]
  /\ snapshot_date \in Dates
  /\ file \in {NoFile} \cup {FileOf(rows) : rows \in StoreSeqs(UNION {StoreRows(d) : d \in Dates})}
  /\ pass_num = 1
  /\ page = 1
  /\ film_data = <<>>
  /\ last_response = "none"
  /\ fetch_log = <<>>
  /\ all_passes_data = <<>>
  /\ film_scores = <<>>
  /\ sorted_films = <<>>
  /\ films = <<>>
  /\ futures = <<>>
  /\ cur = 0
  /\ scraped_data = <<>>
  /\ interrupted = FALSE
  /\ ok_at_interrupt = {}
  /\ started_at_interrupt = {}
  /\ out_of_order = FALSE
  /\ store_data \in StoreSeqs(StoreRows(snapshot_date))
  /\ store_count = 0
  /\ file_once = NoFile

\* save_to_csv(data, filename), once more with the same records
StoreAppend ==
  /\ pc = "store"
  /\ store_count < MaxAppends
  /\ file' = SaveToCsv(store_data, file)
  /\ store_count' = store_count + 1
  /\ file_once' = IF store_count = 0 THEN file' ELSE file_once
  /\ UNCHANGED <<pc, num_passes, pages, source, snapshot_date, store_data>>
  /\ UNCHANGED rankVars /\ UNCHANGED enrichVars

NextStore == StoreAppend

SpecStore == InitStore /\ [][NextStore]_vars

\* ================================ properties ================================

\* ---- C1 ----

RowKey(r) == <<r.id, r.date>>
OneRowPerKey(rows) ==
  \A i, j \in 1..Len(rows) : RowKey(rows[i]) = RowKey(rows[j]) => i = j

\* C1: appending the same snapshot's records twice leaves the table that
\* appending them once leaves, with exactly one row per (Film ID, Snapshot Date).
C1_AppendTwiceIsOnce ==
  store_count = 2 => (file = file_once /\ OneRowPerKey(file.rows))

\* ---- C2, C3 ----

Orders(data) == {data[k].order : k \in 1..Len(data)}

\* C2: after an interrupt during enrichment, every item whose detail fetch had
\* completed with details before the interrupt has its record in the set that
\* is handed to save_to_csv.
C2_CompletedBeforeInterruptSaved ==
  (interrupted /\ pc \in {"save", "done"}) => ok_at_interrupt \subseteq Orders(scraped_data)

\* C3: after an interrupt during enrichment, no detail fetch that had not yet
\* started is started.
C3_NoFetchStartsAfterInterrupt ==
  interrupted => {i \in 1..Len(futures) : Started(futures[i])} \subseteq started_at_interrupt

\* ---- the scores of the passes' observations, as the data model defines them ----

Observed ==
  UNION {{all_passes_data[p][k].id : k \in 1..Len(all_passes_data[p])} : p \in 1..Len(all_passes_data)}
PassesWith(film_id) ==
  {p \in 1..Len(all_passes_data) : \E k \in 1..Len(all_passes_data[p]) : all_passes_data[p][k].id = film_id}
EntryIn(p, film_id) ==
  CHOOSE e \in {all_passes_data[p][k] : k \in 1..Len(all_passes_data[p])} : e.id = film_id
PagesOf(film_id) == {EntryIn(p, film_id).page : p \in PassesWith(film_id)}
EarliestPage(film_id) == CHOOSE m \in PagesOf(film_id) : \A q \in PagesOf(film_id) : m <= q
PassCount(film_id) == Cardinality(PassesWith(film_id))
RECURSIVE PageSumUpTo(_, _)
PageSumUpTo(film_id, p) ==
  IF p = 0 THEN 0
  ELSE PageSumUpTo(film_id, p - 1) + (IF p \in PassesWith(film_id) THEN EntryIn(p, film_id).page ELSE 0)
PageSum(film_id) == PageSumUpTo(film_id, Len(all_passes_data))
\* avg_page(a) < avg_page(b), and avg_page(a) = avg_page(b)
LowerAvg(a, b) == PageSum(a) * PassCount(b) < PageSum(b) * PassCount(a)
SameAvg(a, b) == PageSum(a) * PassCount(b) = PageSum(b) * PassCount(a)

Returned == pc = "ranked"

\* ---- C4 ----

PagePosBefore(a, b) == a.page < b.page \/ (a.page = b.page /\ a.pos < b.pos)
\* the place of an entry of a pass in the (page, position) order of the pass
PlaceIn(obs, e) == Cardinality({k \in 1..Len(obs) : PagePosBefore(obs[k], e)}) + 1

\* C4: with one pass, the ranked list is the pass's identities in (earliest
\* page, position on that page) order, cut to MAX_FILMS.
C4_SinglePassEquivalence ==
  (Returned /\ num_passes = 1) =>
     LET obs == all_passes_data[1] IN
       /\ Len(films) = Min(Len(obs), MAX_FILMS)
       /\ \A k \in 1..Len(obs) :
            PlaceIn(obs, obs[k]) <= MAX_FILMS => films[PlaceIn(obs, obs[k])].id = obs[k].id

\* one pass of three pages with films, the second page listing only films of
\* the first again, in which more than MAX_FILMS films were seen
C4_Witness ==
  /\ Returned /\ num_passes = 1
  /\ Len(all_passes_data[1]) > MAX_FILMS
  /\ fetch_log = <<1, 2, 3>> /\ last_response = "films"
  /\ \A k \in 1..Len(all_passes_data[1]) : all_passes_data[1][k].page # 2
  /\ films[1].id > films[2].id

\* ---- C5 ----

\* C5: in the ranked list a lower earliest_page goes first whatever avg_page and
\* pass_count are; on equal earliest_page the lower avg_page goes first; on
\* equal earliest_page and avg_page the higher pass_count goes first.
C5_RankOrder ==
  Returned =>
    \A i, j \in 1..Len(films) :
      LET a == films[i].id
          b == films[j].id
      IN /\ EarliestPage(a) < EarliestPage(b) => i < j
         /\ (EarliestPage(a) = EarliestPage(b) /\ LowerAvg(a, b)) => i < j
         /\ (EarliestPage(a) = EarliestPage(b) /\ SameAvg(a, b) /\ PassCount(a) > PassCount(b))
              => i < j

\* a list in which a film with the lower earliest_page and the higher avg_page
\* is before another, and two films that tie on earliest_page differ in avg_page
C5_Witness ==
  /\ Returned
  /\ \E i, j \in 1..Len(films) :
       /\ i < j
       /\ EarliestPage(films[i].id) < EarliestPage(films[j].id)
       /\ LowerAvg(films[j].id, films[i].id)
  /\ \E i, j \in 1..Len(films) :
       /\ i < j
       /\ EarliestPage(films[i].id) = EarliestPage(films[j].id)
       /\ LowerAvg(films[i].id, films[j].id)

\* ---- C6 ----

\* the records in ascending Order (an insertion sort on the Order field)
RECURSIVE SortByOrder(_)
SortByOrder(data) ==
  IF data = <<>>
    THEN <<>>
    ELSE LET front == SortByOrder(SubSeq(data, 1, Len(data) - 1))
             last == data[Len(data)]
             n == Cardinality({k \in 1..Len(front) : front[k].order <= last.order})
         IN SubSeq(front, 1, n) \o <<last>> \o SubSeq(front, n + 1, Len(front))

IdsOf(s) == [k \in 1..Len(s) |-> s[k].id]
Enriched == pc \in {"save", "done"}

\* C6: whatever the order in which the fetches complete, the records sorted by
\* Order follow the ranked list: each record's Order is the place of its film in
\* the ranked list, no Order is used twice, and when every fetch gave details
\* the sorted records' identities are the identity sequence of the ranked list.
C6_OrderPreserved ==
  LET out == SortByOrder(scraped_data) IN
    /\ \A k \in 1..Len(out) :
         /\ out[k].order \in 1..Len(films)
         /\ out[k].id = films[out[k].order].id
    /\ \A k \in 1..(Len(out) - 1) : out[k].order < out[k + 1].order
    /\ (Enriched /\ ~interrupted /\ \A i \in 1..Len(futures) : futures[i] = "details")
         => IdsOf(out) = IdsOf(films)

\* a run over three films whose fetches completed out of rank order
C6_Witness ==
  /\ pc = "done" /\ ~interrupted
  /\ out_of_order
  /\ Len(films) = 3
  /\ Len(scraped_data) = 3

\* ---- C7 ----

\* C7 as stated: once the pass has collected MAX_FILMS films it requests no
\* further page.
C7_StopsAtItemCap ==
  [][Len(film_data) >= MAX_FILMS => Len(fetch_log') <= Len(fetch_log)]_vars

UpTo(n) == [k \in 1..n |-> k]

\* C7 as amended: a pass requests the pages 1, 2, ... in turn and ends only
\* after a failed fetch, after a page without films, or after the last page of
\* the range; the number of films collected does not end it.
C7_StopsOnlyOnFailureOrEnd ==
  pc = "pass_done" =>
     IF last_response \in {"failed", "empty"}
       THEN fetch_log = UpTo(page)
       ELSE fetch_log = UpTo(pages)

\* a pass that had MAX_FILMS films after two pages and requested the third
C7_Witness ==
  /\ pc = "pass_done"
  /\ fetch_log = <<1, 2, 3>>
  /\ Cardinality({k \in 1..Len(film_data) : film_data[k].page <= 2}) >= MAX_FILMS

\* ---- C8 ----

\* the first pass, in pass order, that saw the film on its earliest page
EarliestPass(film_id) ==
  CHOOSE p \in PassesWith(film_id) :
    /\ EntryIn(p, film_id).page = EarliestPage(film_id)
    /\ \A q \in PassesWith(film_id) : EntryIn(q, film_id).page = EarliestPage(film_id) => p <= q

\* C8: the locator of every film of the ranked list is the one recorded in the
\* pass that saw the film on its earliest page (the first such pass).
C8_LocatorOfEarliestPage ==
  Returned =>
    \A k \in 1..Len(films) : films[k].url = EntryIn(EarliestPass(films[k].id), films[k].id).url

\* ---- C9 ----

\* C9: the ranked list has at most MAX_FILMS entries and no identity twice, and
\* it is the first MAX_FILMS entries of the sorted order of all observed films.
C9_Truncation ==
  Returned =>
    /\ Len(films) <= MAX_FILMS
    /\ \A i, j \in 1..Len(films) : films[i].id = films[j].id => i = j
    /\ {sorted_films[k].id : k \in 1..Len(sorted_films)} = Observed
    /\ Len(sorted_films) = Cardinality(Observed)
    /\ Len(films) = Min(Cardinality(Observed), MAX_FILMS)
    /\ \A k \in 1..Len(films) : films[k].id = sorted_films[k].id

\* two passes that saw more than MAX_FILMS films between them
C9_Witness ==
  /\ Returned
  /\ num_passes = 2
  /\ Cardinality(Observed) > MAX_FILMS
  /\ Len(films) = MAX_FILMS

\* ---- C10 ----

WithDetails == {i \in 1..Len(futures) : futures[i] = "details"}

\* C10: an item whose fetch gives no details or raises is never in the result,
\* and it does not end the batch: in a run that is not interrupted the records
\* saved are those of all the items whose fetch gave details, and each of them
\* is in the history file.
C10_FailureIsolation ==
  /\ Orders(scraped_data) \subseteq WithDetails
  /\ (pc = "done" /\ films # <<>> /\ ~interrupted) =>
       /\ Orders(scraped_data) = WithDetails
       /\ \A i \in WithDetails :
            \E k \in 1..Len(file.rows) : file.rows[k] = Record(i)

\* a run in which the first fetch raised, the second gave no details and the
\* third gave details
C10_Witness ==
  /\ pc = "done" /\ ~interrupted
  /\ Len(films) = 3
  /\ futures = <<"raised", "none", "details">>
  /\ Orders(scraped_data) = {3}

\* ---- C11 ----

\* C11: when no identity is observed in any pass the ranked list is empty, and a
\* run with an empty ranked list ends at once: no fetch is submitted or started,
\* save_to_csv is not called and the history file stays as it was before the
\* run (the file changes, and futures exist, only in a run with films).
C11_EmptyRunLeavesHistory ==
  [][ /\ (pc' = "ranked" /\ Observed' = {}) => films' = <<>>
      /\ (pc = "ranked" /\ films = <<>>) =>
           (pc' = "done" /\ futures' = <<>> /\ scraped_data' = <<>> /\ file' = file)
      /\ pc' = "save" => films' # <<>>
      /\ (file' # file \/ futures' # futures) => films # <<>> ]_vars

\* a run of two passes that saw no film has ended, with a history file present
C11_Witness ==
  /\ pc = "done"
  /\ films = <<>>
  /\ num_passes = 2
  /\ futures = <<>>
  /\ file.exists

\* ---- C12 ----

TieOnKey(a, b) ==
  EarliestPage(a) = EarliestPage(b) /\ SameAvg(a, b) /\ PassCount(a) = PassCount(b)
FirstPass(film_id) == CHOOSE p \in PassesWith(film_id) : \A q \in PassesWith(film_id) : p <= q
\* a was first encountered before b: in an earlier pass, or in the same pass on
\* an earlier page or at an earlier position of the same page
FirstEncounteredBefore(a, b) ==
  \/ FirstPass(a) < FirstPass(b)
  \/ /\ FirstPass(a) = FirstPass(b)
     /\ PagePosBefore(EntryIn(FirstPass(a), a), EntryIn(FirstPass(b), b))

ExamplePass1 == <<[id |-> 1, url |-> 1, page |-> 1, pos |-> 1], [id |-> 2, url |-> 1, page |-> 1, pos |-> 2],
                  [id |-> 3, url |-> 1, page |-> 2, pos |-> 1], [id |-> 4, url |-> 1, page |-> 2, pos |-> 2],
                  [id |-> 5, url |-> 1, page |-> 3, pos |-> 1], [id |-> 6, url |-> 1, page |-> 3, pos |-> 2]>>
ExamplePass2 == <<[id |-> 2, url |-> 1, page |-> 1, pos |-> 1], [id |-> 1, url |-> 1, page |-> 1, pos |-> 2],
                  [id |-> 4, url |-> 1, page |-> 2, pos |-> 1], [id |-> 3, url |-> 1, page |-> 2, pos |-> 2],
                  [id |-> 6, url |-> 1, page |-> 3, pos |-> 1], [id |-> 5, url |-> 1, page |-> 3, pos |-> 2]>>
IsExample == all_passes_data = <<ExamplePass1, ExamplePass2>>

\* C13: films that tie on earliest_page, avg_page and pass_count are in the
\* ranked list in the order in which they were first encountered (the earliest
\* pass, then page and position in that pass); for pass 1 = [A,B | C,D | E,F]
\* and pass 2 = [B,A | D,C | F,E] the sorted order is [A,B,C,D,E,F] and the
\* ranked list is its first MAX_FILMS films.
C13_FirstEncounterTieBreak ==
  Returned =>
    /\ \A i, j \in 1..Len(films) :
         (i < j /\ TieOnKey(films[i].id, films[j].id))
            => FirstEncounteredBefore(films[i].id, films[j].id)
    /\ IsExample =>
         /\ IdsOf(sorted_films) = <<1, 2, 3, 4, 5, 6>>
         /\ IdsOf(films) = SubSeq(<<1, 2, 3, 4, 5, 6>>, 1, Min(6, MAX_FILMS))

\* the two passes of the example have been reconciled
C13_Witness ==
  /\ Returned
  /\ IsExample
  /\ Len(films) = MAX_FILMS

====
